---- MODULE Spec2Model ----
(***************************************************************************)
(* Model of the catalog loader and the filter / search engine of           *)
(* src/src/App.vue (sec-kpi-metrics).                                      *)
(*                                                                         *)
(* A JavaScript string is a sequence of one-character strings.  A          *)
(* JavaScript value that may be a string, null or undefined is a record    *)
(* [t |-> type tag, s |-> characters].                                     *)
(***************************************************************************)
EXTENDS Integers, Sequences, FiniteSets

(* ---------------------------------------------------------------------- *)
(* Bounds of the model                                                    *)
(* ---------------------------------------------------------------------- *)

\* most categories in the manifest (index.json)
MaxCats == 2

\* most records in one category file (data/metrics/<slug>.json)
MaxItems == 2

(* ---------------------------------------------------------------------- *)
(* JavaScript values and string primitives                                *)
(* ---------------------------------------------------------------------- *)

Str(s) == [t |-> "string", s |-> s]

Null == [t |-> "null", s |-> <<>>]

Undefined == [t |-> "undefined", s |-> <<>>]

\* a ?? b
Coalesce(a, b) == IF a.t \in {"null", "undefined"} THEN b ELSE a

\* String(v) for a value that is neither null nor undefined
JSString(v) == v.s

UpperAlpha ==
  << "A", "B", "C", "D", "E", "F", "G", "H", "I", "J", "K", "L", "M",
     "N", "O", "P", "Q", "R", "S", "T", "U", "V", "W", "X", "Y", "Z" >>

LowerAlpha ==
  << "a", "b", "c", "d", "e", "f", "g", "h", "i", "j", "k", "l", "m",
     "n", "o", "p", "q", "r", "s", "t", "u", "v", "w", "x", "y", "z" >>

\* the lower-case letter of each upper-case letter
LowerOf ==
  [c \in {UpperAlpha[i] : i \in 1..26} |->
     LowerAlpha[CHOOSE i \in 1..26 : UpperAlpha[i] = c]]

charToLower(c) == IF c \in DOMAIN LowerOf THEN LowerOf[c] ELSE c

RECURSIVE toLowerCase(_)
\* String.prototype.toLowerCase
toLowerCase(s) ==
  IF s = <<>> THEN <<>> ELSE <<charToLower(Head(s))>> \o toLowerCase(Tail(s))

WhiteSpace == {" ", "\t", "\n"}

RECURSIVE trimStart(_)
trimStart(s) ==
  IF s # <<>> /\ Head(s) \in WhiteSpace THEN trimStart(Tail(s)) ELSE s

RECURSIVE trimEnd(_)
trimEnd(s) ==
  IF s # <<>> /\ s[Len(s)] \in WhiteSpace
  THEN trimEnd(SubSeq(s, 1, Len(s) - 1))
  ELSE s

\* String.prototype.trim
trim(s) == trimEnd(trimStart(s))

RECURSIVE includesFrom(_, _, _)
includesFrom(hay, needle, pos) ==
  IF pos + Len(needle) > Len(hay) THEN FALSE
  ELSE IF SubSeq(hay, pos + 1, pos + Len(needle)) = needle THEN TRUE
  ELSE includesFrom(hay, needle, pos + 1)

\* String.prototype.includes
includes(hay, needle) == includesFrom(hay, needle, 0)

RECURSIVE numberToString(_)
\* decimal digits of a non-negative integer, as a template literal prints it
numberToString(n) ==
  LET digit(d) == <<"0", "1", "2", "3", "4", "5", "6", "7", "8", "9">>[d + 1]
  IN IF n < 10 THEN <<digit(n)>>
     ELSE numberToString(n \div 10) \o <<digit(n % 10)>>

(* ---------------------------------------------------------------------- *)
(* Input data: the manifest and the category files                        *)
(* ---------------------------------------------------------------------- *)

CatGov == <<"G", "o">>

CatIr == <<"I", "r">>

SlugG == <<"g">>

SlugG1 == <<"g", "-", "1">>

SlugI == <<"i">>

\* Entries a manifest may hold.  Slugs are unique (the join key); two
\* entries share the display name CatGov.  count is the advisory count.
Metas ==
  { [category |-> CatGov, slug |-> SlugG, file |-> "g.json", count |-> 0],
    [category |-> CatGov, slug |-> SlugG1, file |-> "g-1.json", count |-> 7],
    [category |-> CatIr, slug |-> SlugI, file |-> "i.json", count |-> 1] }

Slugs == {m.slug : m \in Metas}

\* The raw records (type MetricBase) of the category files.  An omitted key
\* reads as undefined.  Each file has two kinds of record, which alternate.
RawRecord(slug, odd) ==
  IF slug = SlugG THEN
    IF odd THEN
      [Category |-> Str(CatGov), SubCategory |-> Undefined,
       MetricTitle |-> Str(<<"A", "b">>), MetricDescription |-> Str(<<"c">>),
       ReportPeriod |-> Str(<<" ", "q", " ">>), Target |-> Str(<<"-">>),
       Comment |-> Str(<<"n", "u", "l", "l">>), Contributor |-> Undefined,
       Source |-> Str(<<" ", " ">>)]
    ELSE
      [Category |-> Null, SubCategory |-> Null,
       MetricTitle |-> Str(<<"b">>), MetricDescription |-> Undefined,
       ReportPeriod |-> Null, Target |-> Str(<<"9", "5", "%">>),
       Comment |-> Str(<<"N", "u", "L", "L">>),
       Contributor |-> Str(<<"A", "l">>), Source |-> Str(<<" ", "-", " ">>)]
  ELSE IF slug = SlugG1 THEN
    IF odd THEN
      [Category |-> Undefined, SubCategory |-> Str(<<"M", "a">>),
       MetricTitle |-> Str(<<"C", "a">>), MetricDescription |-> Null,
       ReportPeriod |-> Str(<<"-", "x">>), Target |-> Str(<<" ", "9", " ">>),
       Comment |-> Undefined, Contributor |-> Str(<<"-">>),
       Source |-> Str(<<"u">>)]
    ELSE
      [Category |-> Str(CatGov), SubCategory |-> Str(<<>>),
       MetricTitle |-> Undefined, MetricDescription |-> Str(<<"d">>),
       ReportPeriod |-> Str(<<>>), Target |-> Null,
       Comment |-> Str(<<"n", " ", "-">>),
       Contributor |-> Str(<<" ", "N", "U", "L", "L", "\t">>),
       Source |-> Undefined]
  ELSE
    IF odd THEN
      [Category |-> Str(CatIr), SubCategory |-> Null,
       MetricTitle |-> Str(<<"M", "c">>),
       MetricDescription |-> Str(<<"a", " ", "B">>),
       ReportPeriod |-> Undefined, Target |-> Undefined,
       Comment |-> Null, Contributor |-> Null, Source |-> Null]
    ELSE
      [Category |-> Str(CatIr), SubCategory |-> Str(<<"g", "o">>),
       MetricTitle |-> Str(<<"m">>), MetricDescription |-> Str(<<>>),
       ReportPeriod |-> Str(<<"Q">>),
       Target |-> Str(<<"n", "u", "l", "l", "s">>),
       Comment |-> Str(<<"\n">>), Contributor |-> Str(<<"a", "-">>),
       Source |-> Str(<<"-", "-">>)]

RECURSIVE RawFile(_, _)
\* the category file of a slug when it holds n records
RawFile(slug, n) ==
  IF n = 0 THEN <<>>
  ELSE Append(RawFile(slug, n - 1), RawRecord(slug, n % 2 = 1))

SeqsUpTo(S, n) == UNION {[1..k -> S] : k \in 0..n}

\* What import.meta.glob holds for a slug: no module, or a module whose
\* default export is the sequence of raw records of the file.
NoModule == [present |-> FALSE, default |-> <<>>]

ModuleChoices(slug) ==
  {NoModule} \cup
  {[present |-> TRUE, default |-> RawFile(slug, n)] : n \in 1..MaxItems}

\* Manifests: sequences of entries with pairwise distinct slugs.
Manifests ==
  {ix \in SeqsUpTo(Metas, MaxCats) :
     \A i, j \in 1..Len(ix) : i # j => ix[i].slug # ix[j].slug}

(* ---------------------------------------------------------------------- *)
(* Catalog loader                                                         *)
(* ---------------------------------------------------------------------- *)

\* hydrateMetric with Contributor copied without a default
hydrateMetricContributorRaw(metric, slug, index) ==
  [id |-> slug \o <<"-">> \o numberToString(index),
   Category |-> Coalesce(metric.Category, Str(<<>>)),
   SubCategory |-> Coalesce(metric.SubCategory, Null),
   MetricTitle |-> Coalesce(metric.MetricTitle, Str(<<>>)),
   MetricDescription |-> Coalesce(metric.MetricDescription, Str(<<>>)),
   ReportPeriod |-> Coalesce(metric.ReportPeriod, Str(<<>>)),
   Target |-> Coalesce(metric.Target, Str(<<>>)),
   Comment |-> Coalesce(metric.Comment, Str(<<>>)),
   Contributor |-> metric.Contributor,
   Source |-> Coalesce(metric.Source, Str(<<>>))]

\* hydrateMetric with the id built from the position alone
hydrateMetricIdFromIndex(metric, slug, index) ==
  [id |-> <<"m", "-">> \o numberToString(index),
   Category |-> Coalesce(metric.Category, Str(<<>>)),
   SubCategory |-> Coalesce(metric.SubCategory, Null),
   MetricTitle |-> Coalesce(metric.MetricTitle, Str(<<>>)),
   MetricDescription |-> Coalesce(metric.MetricDescription, Str(<<>>)),
   ReportPeriod |-> Coalesce(metric.ReportPeriod, Str(<<>>)),
   Target |-> Coalesce(metric.Target, Str(<<>>)),
   Comment |-> Coalesce(metric.Comment, Str(<<>>)),
   Contributor |-> Coalesce(metric.Contributor, Str(<<>>)),
   Source |-> Coalesce(metric.Source, Str(<<>>))]

\* index is the 0-based position of the record in its file
hydrateMetric(metric, slug, index) ==
  [id |-> slug \o <<"-">> \o numberToString(index),
   Category |-> Coalesce(metric.Category, Str(<<>>)),
   SubCategory |-> Coalesce(metric.SubCategory, Null),
   MetricTitle |-> Coalesce(metric.MetricTitle, Str(<<>>)),
   MetricDescription |-> Coalesce(metric.MetricDescription, Str(<<>>)),
   ReportPeriod |-> Coalesce(metric.ReportPeriod, Str(<<>>)),
   Target |-> Coalesce(metric.Target, Str(<<>>)),
   Comment |-> Coalesce(metric.Comment, Str(<<>>)),
   Contributor |-> Coalesce(metric.Contributor, Str(<<>>)),
   Source |-> Coalesce(metric.Source, Str(<<>>))]

RECURSIVE hydrateAll(_, _, _)
\* rawItems.map((item, itemIndex) => hydrateMetric(item, slug, itemIndex))
hydrateAll(rawItems, slug, done) ==
  IF done = Len(rawItems) THEN <<>>
  ELSE <<hydrateMetric(rawItems[done + 1], slug, done)>>
       \o hydrateAll(rawItems, slug, done + 1)

categoryEntry(meta, mods) ==
  LET module == mods[meta.slug]
      rawItems == IF module.present THEN module.default ELSE <<>>
      items == hydrateAll(rawItems, meta.slug, 0)
  IN [category |-> meta.category, slug |-> meta.slug, file |-> meta.file,
      items |-> items, count |-> Len(items)]

RECURSIVE initialCategories(_, _)
initialCategories(index, mods) ==
  IF index = <<>> THEN <<>>
  ELSE <<categoryEntry(Head(index), mods)>>
       \o initialCategories(Tail(index), mods)

(* ---------------------------------------------------------------------- *)
(* State                                                                  *)
(* ---------------------------------------------------------------------- *)

VARIABLES
  metricsIndex,          \* the manifest, data/index.json
  modules,               \* the category files found by import.meta.glob
  categories,            \* ref: the catalog
  searchQuery,           \* ref: the query text
  selectedCategory,      \* ref: display name of the selected category
  isSidebarOpen,         \* ref
  effectQueued,          \* the reconciliation effect is scheduled to run
  effectTracksSelected   \* the effect read selectedCategory in its last run

vars ==
  << metricsIndex, modules, categories, searchQuery, selectedCategory,
     isSidebarOpen, effectQueued, effectTracksSelected >>

(* ---------------------------------------------------------------------- *)
(* Filter and search engine                                               *)
(* ---------------------------------------------------------------------- *)

searchableFields ==
  << "MetricTitle", "MetricDescription", "Category", "SubCategory",
     "ReportPeriod", "Target", "Comment", "Contributor", "Source" >>

toComparable(input) ==
  IF input.t = "string" THEN toLowerCase(input.s)
  ELSE IF input.t \notin {"null", "undefined"} THEN toLowerCase(JSString(input))
  ELSE <<>>

\* matchesSearch comparing the query as typed
matchesSearchCaseSensitive(metric, query) ==
  IF query = <<>> THEN TRUE
  ELSE \E i \in 1..Len(searchableFields) :
         includes(toComparable(metric[searchableFields[i]]), query)

matchesSearch(metric, query) ==
  IF query = <<>> THEN TRUE
  ELSE LET normalizedQuery == toLowerCase(query)
       IN \E i \in 1..Len(searchableFields) :
            includes(toComparable(metric[searchableFields[i]]), normalizedQuery)

RECURSIVE flatMapItems(_)
flatMapItems(cats) ==
  IF cats = <<>> THEN <<>> ELSE Head(cats).items \o flatMapItems(Tail(cats))

allMetrics(cats) == flatMapItems(cats)

RECURSIVE filterSeq(_, _)
\* Array.prototype.filter; keep is a function from elements to BOOLEAN
filterSeq(s, keep) ==
  IF s = <<>> THEN <<>>
  ELSE (IF keep[Head(s)] THEN <<Head(s)>> ELSE <<>>) \o filterSeq(Tail(s), keep)

Range(s) == {s[i] : i \in 1..Len(s)}

filterMatching(items, query) ==
  filterSeq(items, [m \in Range(items) |-> matchesSearch(m, query)])

withMatchCount(category, query) ==
  LET matchCount == IF query # <<>>
                    THEN Len(filterMatching(category.items, query))
                    ELSE category.count
  IN [category |-> category.category, slug |-> category.slug,
      file |-> category.file, items |-> category.items,
      count |-> category.count, matchCount |-> matchCount]

RECURSIVE mapMatchCount(_, _)
mapMatchCount(cats, query) ==
  IF cats = <<>> THEN <<>>
  ELSE <<withMatchCount(Head(cats), query)>> \o mapMatchCount(Tail(cats), query)

\* filteredCategories keeping every category that has records
filteredCategoriesCountOnly(cats, sq) ==
  LET query == toLowerCase(trim(sq))
      mapped == mapMatchCount(cats, query)
  IN filterSeq(mapped, [c \in Range(mapped) |-> c.count > 0])

filteredCategoriesOf(cats, sq) ==
  LET query == toLowerCase(trim(sq))
      mapped == mapMatchCount(cats, query)
  IN filterSeq(mapped,
       [c \in Range(mapped) |->
          IF query # <<>> THEN c.matchCount > 0 ELSE c.count > 0])

filteredCategories == filteredCategoriesOf(categories, searchQuery)

\* filteredCategories.value.some(c => c.category === selectedCategory.value)
someNamed(cats, name) == \E i \in 1..Len(cats) : cats[i].category = name

\* the reconciliation falling back to the last visible category
reconciledToLast(visible, selected) ==
  IF ~someNamed(visible, selected)
  THEN IF visible # <<>> THEN visible[Len(visible)].category ELSE <<>>
  ELSE selected

\* the value the reconciliation effect leaves in selectedCategory
reconciled(visible, selected) ==
  IF ~someNamed(visible, selected)
  THEN IF visible # <<>> THEN visible[1].category ELSE <<>>
  ELSE selected

\* Array.prototype.find for a display name, then ?.items ?? []
findItems(cats, name) ==
  IF \E i \in 1..Len(cats) : cats[i].category = name
  THEN cats[CHOOSE i \in 1..Len(cats) :
              /\ cats[i].category = name
              /\ \A j \in 1..(i - 1) : cats[j].category # name].items
  ELSE <<>>

\* displayMetrics searching the selected category only
displayMetricsSelectedOnly(cats, sq, selected) ==
  LET query == toLowerCase(trim(sq))
  IN IF query # <<>>
     THEN filterMatching(findItems(cats, selected), query)
     ELSE findItems(cats, selected)

\* displayMetrics testing the query without trimming it
displayMetricsNoTrim(cats, sq, selected) ==
  LET query == toLowerCase(sq)
  IN IF query # <<>>
     THEN filterMatching(allMetrics(cats), query)
     ELSE findItems(cats, selected)

displayMetricsOf(cats, sq, selected) ==
  LET query == toLowerCase(trim(sq))
  IN IF query # <<>>
     THEN filterMatching(allMetrics(cats), query)
     ELSE findItems(cats, selected)

displayMetrics == displayMetricsOf(categories, searchQuery, selectedCategory)

iconFieldMap(field) ==
  CASE field = "ReportPeriod" -> Str(<<"r", "e", "p", "e", "a", "t">>)
    [] field = "Target" -> Str(<<"b", "u", "l", "l", "s", "e", "y", "e">>)
    [] field = "Comment" -> Str(<<"c", "o", "m", "m", "e", "n", "t">>)
    [] field = "Source" -> Str(<<"a", "r", "r", "o", "w", "-", "u", "p", "-", "r", "i", "g", "h", "t",
               "-", "f", "r", "o", "m", "-", "s", "q", "u", "a", "r", "e">>)
    [] field = "Contributor" -> Str(<<"u", "s", "e", "r">>)
    [] OTHER -> Undefined

detailFields ==
  << "ReportPeriod", "Target", "Comment", "Contributor", "Source" >>

RECURSIVE reduceDetails(_, _)
reduceDetails(metric, fields) ==
  IF fields = <<>> THEN <<>>
  ELSE LET field == Head(fields)
           raw == metric[field]
           value == IF raw.t = "string" THEN trim(raw.s)
                    ELSE IF raw.t \notin {"null", "undefined"} THEN JSString(raw)
                    ELSE <<>>
           skip == \/ value = <<>>
                   \/ value = <<"-">>
                   \/ toLowerCase(value) = <<"n", "u", "l", "l">>
       IN (IF skip THEN <<>>
           ELSE << [field |-> field, value |-> value,
                    icon |-> Coalesce(iconFieldMap(field), Null)] >>)
          \o reduceDetails(metric, Tail(fields))

RECURSIVE reduceDetailsExactNull(_, _)
reduceDetailsExactNull(metric, fields) ==
  IF fields = <<>> THEN <<>>
  ELSE LET field == Head(fields)
           raw == metric[field]
           value == IF raw.t = "string" THEN trim(raw.s)
                    ELSE IF raw.t \notin {"null", "undefined"} THEN JSString(raw)
                    ELSE <<>>
           skip == \/ value = <<>>
                   \/ value = <<"-">>
                   \/ value = <<"n", "u", "l", "l">>
       IN (IF skip THEN <<>>
           ELSE << [field |-> field, value |-> value,
                    icon |-> Coalesce(iconFieldMap(field), Null)] >>)
          \o reduceDetailsExactNull(metric, Tail(fields))

\* metricDetails dropping "null" in lower case only
metricDetailsExactNull(metric) == reduceDetailsExactNull(metric, detailFields)

metricDetails(metric) == reduceDetails(metric, detailFields)

(* ---------------------------------------------------------------------- *)
(* Initial state and operations                                           *)
(* ---------------------------------------------------------------------- *)

\* Texts the search box may hold
QueryTexts ==
  { <<>>, <<" ">>, <<"\t", "a", " ", "B", " ">>, <<"z">>, <<"G", "O">> }

\* Names selectCategory may be called with; the last names no category
CategoryNames == { CatGov, CatIr, <<"Z", "z">> }

\* The state when setup has run up to the creation of the reconciliation
\* effect, whose first run is about to happen.
Init ==
  /\ metricsIndex \in Manifests
  /\ modules \in [Slugs -> UNION {ModuleChoices(sl) : sl \in Slugs}]
  /\ \A sl \in Slugs :
       /\ modules[sl] \in ModuleChoices(sl)
       /\ (\A i \in 1..Len(metricsIndex) : metricsIndex[i].slug # sl)
            => modules[sl] = NoModule
  /\ categories = initialCategories(metricsIndex, modules)
  /\ searchQuery = <<>>
  /\ selectedCategory =
       (IF categories # <<>> THEN categories[1].category ELSE <<>>)
  /\ isSidebarOpen = FALSE
  /\ effectQueued = TRUE
  /\ effectTracksSelected = FALSE

Data == << metricsIndex, modules, categories >>

\* One run of the reconciliation effect.  The run subscribes the effect to
\* what it read: filteredCategories always, selectedCategory only when the
\* callback of some() was called, that is when a category is visible.
watchEffect ==
  /\ effectQueued
  /\ selectedCategory' = reconciled(filteredCategories, selectedCategory)
  /\ effectTracksSelected' = (filteredCategories # <<>>)
  /\ effectQueued' = FALSE
  /\ UNCHANGED << Data, searchQuery, isSidebarOpen >>

\* A write of searchQuery (the search box, which passes its text trimmed;
\* the engine trims again, so any text is taken here).  filteredCategories,
\* which the effect reads, depends on searchQuery.  A write of the value a
\* ref already holds triggers nothing.
setQuery(text) ==
  /\ ~effectQueued
  /\ searchQuery' = text
  /\ effectQueued' = (text # searchQuery)
  /\ UNCHANGED << Data, selectedCategory, isSidebarOpen, effectTracksSelected >>

clearSearch ==
  /\ ~effectQueued
  /\ searchQuery' = <<>>
  /\ effectQueued' = (searchQuery # <<>>)
  /\ UNCHANGED << Data, selectedCategory, isSidebarOpen, effectTracksSelected >>

toggleSidebar ==
  /\ ~effectQueued
  /\ isSidebarOpen' = ~isSidebarOpen
  /\ UNCHANGED << Data, searchQuery, selectedCategory, effectQueued,
                  effectTracksSelected >>

closeSidebar ==
  /\ ~effectQueued
  /\ isSidebarOpen' = FALSE
  /\ UNCHANGED << Data, searchQuery, selectedCategory, effectQueued,
                  effectTracksSelected >>

selectCategory(category) ==
  /\ ~effectQueued
  /\ selectedCategory' = category
  /\ isSidebarOpen' = FALSE
  /\ effectQueued' = (effectTracksSelected /\ category # selectedCategory)
  /\ UNCHANGED << Data, searchQuery, effectTracksSelected >>

\* The drop-down bound to selectedCategory; its options are the visible
\* categories.
selectFocusArea(category) ==
  /\ ~effectQueued
  /\ someNamed(filteredCategories, category)
  /\ selectedCategory' = category
  /\ effectQueued' = (effectTracksSelected /\ category # selectedCategory)
  /\ UNCHANGED << Data, searchQuery, isSidebarOpen, effectTracksSelected >>

Next ==
  \/ watchEffect
  \/ \E text \in QueryTexts : setQuery(text)
  \/ clearSearch
  \/ toggleSidebar
  \/ closeSidebar
  \/ \E category \in CategoryNames : selectCategory(category)
  \/ \E category \in CategoryNames : selectFocusArea(category)

Spec == Init /\ [][Next]_vars

(* ---------------------------------------------------------------------- *)
(* Vocabulary of the properties, stated without the engine's operators    *)
(* ---------------------------------------------------------------------- *)

FieldNames ==
  { "Category", "SubCategory", "MetricTitle", "MetricDescription",
    "ReportPeriod", "Target", "Comment", "Contributor", "Source" }

MinOf(S) == CHOOSE x \in S : \A y \in S : x <= y

MaxOf(S) == CHOOSE x \in S : \A y \in S : y <= x

\* s without its leading and trailing white space
Trimmed(s) ==
  LET solid == {i \in 1..Len(s) : s[i] \notin WhiteSpace}
  IN IF solid = {} THEN <<>> ELSE SubSeq(s, MinOf(solid), MaxOf(solid))

\* the text of a field, an absent or null field counting as the empty string
FieldText(v) == IF v.t = "string" THEN v.s ELSE <<>>

IsSubstring(needle, hay) ==
  \E off \in 0..(Len(hay) - Len(needle)) :
    \A k \in 1..Len(needle) : hay[off + k] = needle[k]

UpperOf ==
  [c \in {LowerAlpha[i] : i \in 1..26} |->
     UpperAlpha[CHOOSE i \in 1..26 : LowerAlpha[i] = c]]

RECURSIVE toUpperCase(_)
toUpperCase(s) ==
  IF s = <<>> THEN <<>>
  ELSE <<IF Head(s) \in DOMAIN UpperOf THEN UpperOf[Head(s)] ELSE Head(s)>>
       \o toUpperCase(Tail(s))

Matches(R, q) ==
  \/ q = <<>>
  \/ \E f \in FieldNames :
       IsSubstring(toLowerCase(q), toLowerCase(FieldText(R[f])))

\* the positions (category, record) of the catalog
Positions ==
  UNION { {<<i, k>> : k \in 1..Len(categories[i].items)} :
          i \in 1..Len(categories) }

RecordAt(p) == categories[p[1]].items[p[2]]

RawAt(p) == modules[categories[p[1]].slug].default[p[2]]

AllRecords == {RecordAt(p) : p \in Positions}

\* a category is visible under the query text sq
Visible(c, sq) ==
  IF Trimmed(sq) # <<>>
  THEN \E k \in 1..Len(c.items) : Matches(c.items[k], Trimmed(sq))
  ELSE Len(c.items) > 0

VisibleIdx == {i \in 1..Len(categories) : Visible(categories[i], searchQuery)}

VisibleNames == {categories[i].category : i \in VisibleIdx}

CatPos(slug) == CHOOSE i \in 1..Len(categories) : categories[i].slug = slug

(* ---------------------------------------------------------------------- *)
(* Properties                                                             *)
(* ---------------------------------------------------------------------- *)

\* C1: whenever no run of the reconciliation effect is outstanding,
\* selectedCategory is the name of a visible category, or is the empty
\* string when no category is visible.
C1_SelectionIsVisible ==
  ~effectQueued =>
    \/ selectedCategory \in VisibleNames
    \/ VisibleIdx = {} /\ selectedCategory = <<>>

\* C2: a run of the reconciliation effect keeps a selection that names a
\* visible category, and otherwise selects the first visible category in
\* catalog order, or the empty string when no category is visible.
C2_ReconcileToFirstVisible ==
  [][ (effectQueued /\ ~effectQueued') =>
        selectedCategory' =
          (IF selectedCategory \in VisibleNames THEN selectedCategory
           ELSE IF VisibleIdx = {} THEN <<>>
           ELSE categories[MinOf(VisibleIdx)].category) ]_vars

\* a query is active, it hides the non-empty first category, and the
\* selection has moved to the first visible category, which is the second
C2_Witness ==
  /\ ~effectQueued
  /\ Trimmed(searchQuery) # <<>>
  /\ Len(categories) = 2
  /\ Len(categories[1].items) > 0
  /\ VisibleIdx = {2}
  /\ categories[2].category # categories[1].category
  /\ selectedCategory = categories[2].category

\* no category is visible and the selection has been reset to ""
C2_WitnessNone ==
  /\ ~effectQueued
  /\ AllRecords # {}
  /\ VisibleIdx = {}
  /\ selectedCategory = <<>>

RECURSIVE MatchingInOrder(_, _)
\* the matching records, category by category
MatchingInOrder(cats, q) ==
  IF cats = <<>> THEN <<>>
  ELSE SelectSeq(Head(cats).items, LAMBDA m : Matches(m, q))
       \o MatchingInOrder(Tail(cats), q)

\* C3: with a query that is not empty after trimming, displayMetrics is the
\* matching records of all categories in catalog order, whatever the
\* selection.
C3_GlobalSearch ==
  Trimmed(searchQuery) # <<>> =>
    LET expected == MatchingInOrder(categories, Trimmed(searchQuery))
    IN \A sel \in {selectedCategory, CatGov, CatIr} :
         displayMetricsOf(categories, searchQuery, sel) = expected

\* a query is active; the result holds records of two categories and
\* leaves a record out
C3_Witness ==
  /\ Trimmed(searchQuery) # <<>>
  /\ Len(categories) = 2
  /\ \E a, b \in 1..Len(displayMetrics) :
       /\ displayMetrics[a] \in Range(categories[1].items)
       /\ displayMetrics[b] \in Range(categories[2].items)
  /\ Len(displayMetrics) < Cardinality(Positions)

\* C4: with a query that is empty or only white space, displayMetrics is
\* the items of a category named by the selection, and is empty when no
\* category has that name.
C4_SelectedItems ==
  Trimmed(searchQuery) = <<>> =>
    \A sel \in CategoryNames \cup {selectedCategory} :
      LET shown == displayMetricsOf(categories, searchQuery, sel)
          named == {i \in 1..Len(categories) : categories[i].category = sel}
      IN IF named = {} THEN shown = <<>>
         ELSE \E i \in named : shown = categories[i].items

\* a white-space query, the second category selected and its two records
\* displayed
C4_Witness ==
  /\ ~effectQueued
  /\ searchQuery = <<" ">>
  /\ Len(categories) = 2
  /\ selectedCategory = categories[2].category
  /\ selectedCategory # categories[1].category
  /\ Len(displayMetrics) = 2
  /\ displayMetrics = categories[2].items

\* C5: filteredCategories holds a category iff it has a matching record
\* (query not empty after trimming) or has a record (empty query); it
\* never holds a category without records; it keeps the catalog order.
C5_VisibleCategories ==
  LET vis == filteredCategories
  IN /\ \A i \in 1..Len(categories) :
          (\E j \in 1..Len(vis) : vis[j].slug = categories[i].slug)
            <=> Visible(categories[i], searchQuery)
     /\ \A j \in 1..Len(vis) :
          /\ \E i \in 1..Len(categories) :
               /\ vis[j].slug = categories[i].slug
               /\ vis[j].items = categories[i].items
               /\ vis[j].category = categories[i].category
          /\ Len(vis[j].items) > 0
     /\ \A j, k \in 1..Len(vis) : j < k => CatPos(vis[j].slug) < CatPos(vis[k].slug)

\* a query is active and hides a category that has records
C5_Witness ==
  /\ Trimmed(searchQuery) # <<>>
  /\ Len(filteredCategories) = 1
  /\ \E i \in 1..Len(categories) :
       /\ Len(categories[i].items) > 0
       /\ ~Visible(categories[i], searchQuery)

\* both categories visible under an active query, in catalog order
C5_WitnessOrder ==
  /\ Trimmed(searchQuery) # <<>>
  /\ Len(filteredCategories) = 2

\* C6: matchesSearch is true for the empty query, otherwise true iff the
\* lower-cased query is a substring of a lower-cased searchable field; it
\* gives the same result for the query in upper case.
C6_Matches ==
  \A m \in AllRecords :
    /\ matchesSearch(m, <<>>)
    /\ \A q \in {searchQuery, Trimmed(searchQuery)} :
         LET found == matchesSearch(m, q)
         IN /\ found = Matches(m, q)
            /\ matchesSearch(m, toUpperCase(q)) = found

\* an upper-case query that matches one record through a lower-case field
\* and does not match another record
C6_Witness ==
  /\ searchQuery = <<"G", "O">>
  /\ \E m \in AllRecords :
       matchesSearch(m, searchQuery) /\ m.SubCategory = Str(<<"g", "o">>)
  /\ \E m \in AllRecords : ~matchesSearch(m, searchQuery)

DetailOrder(f) ==
  CASE f = "ReportPeriod" -> 1
    [] f = "Target" -> 2
    [] f = "Comment" -> 3
    [] f = "Contributor" -> 4
    [] f = "Source" -> 5

DetailIcon(f) ==
  CASE f = "ReportPeriod" -> <<"r", "e", "p", "e", "a", "t">>
    [] f = "Target" -> <<"b", "u", "l", "l", "s", "e", "y", "e">>
    [] f = "Comment" -> <<"c", "o", "m", "m", "e", "n", "t">>
    [] f = "Contributor" -> <<"u", "s", "e", "r">>
    [] f = "Source" ->
         <<"a", "r", "r", "o", "w", "-", "u", "p", "-", "r", "i", "g", "h", "t",
           "-", "f", "r", "o", "m", "-", "s", "q", "u", "a", "r", "e">>

Shown(v) ==
  LET text == Trimmed(FieldText(v))
  IN /\ text # <<>>
     /\ text # <<"-">>
     /\ toLowerCase(text) # <<"n", "u", "l", "l">>

\* C7: metricDetails returns, in the order ReportPeriod, Target, Comment,
\* Contributor, Source, exactly the fields whose trimmed value is not
\* empty, not "-" and not "null" in any letter case, each with its trimmed
\* value and the icon of the table.
C7_DetailFields ==
  \A m \in AllRecords :
    LET d == metricDetails(m)
        kept == {f \in {"ReportPeriod", "Target", "Comment", "Contributor",
                        "Source"} : Shown(m[f])}
    IN /\ {d[i].field : i \in 1..Len(d)} = kept
       /\ Len(d) = Cardinality(kept)
       /\ \A i, j \in 1..Len(d) :
            i < j => DetailOrder(d[i].field) < DetailOrder(d[j].field)
       /\ \A i \in 1..Len(d) :
            /\ d[i].value = Trimmed(m[d[i].field].s)
            /\ d[i].icon = Str(DetailIcon(d[i].field))

\* a record whose details keep Target with its icon and Contributor, and
\* drop a null ReportPeriod, a Comment "NuLL" and a Source " - "
C7_Witness ==
  \E m \in AllRecords :
    /\ m.Comment = Str(<<"N", "u", "L", "L">>)
    /\ m.Source = Str(<<" ", "-", " ">>)
    /\ Len(metricDetails(m)) = 2
    /\ metricDetails(m)[1] =
         [field |-> "Target", value |-> <<"9", "5", "%">>,
          icon |-> Str(<<"b", "u", "l", "l", "s", "e", "y", "e">>)]

\* a record whose Target " 9 " is shown trimmed
C7_WitnessTrim ==
  \E m \in AllRecords :
    /\ m.Target = Str(<<" ", "9", " ">>)
    /\ \E i \in 1..Len(metricDetails(m)) :
         metricDetails(m)[i].field = "Target"
           /\ metricDetails(m)[i].value = <<"9">>

Digits == <<"0", "1", "2", "3", "4", "5", "6", "7", "8", "9">>

C10_SelectedVisibleShown ==
  (~effectQueued /\ Trimmed(searchQuery) = <<>> /\ VisibleIdx # {}) =>
    /\ displayMetrics # <<>>
    /\ \E i \in VisibleIdx :
         /\ categories[i].category = selectedCategory
         /\ displayMetrics = categories[i].items

====
